---- MODULE Spec2Model ----
(***************************************************************************)
(* regia: the identity-sorted record stores (Tasks, Notes), the task       *)
(* dependency set, the Database aggregate with its MessagePack codec and   *)
(* whole-file persistence, and the command invocations that load, mutate   *)
(* and save the aggregate.                                                 *)
(***************************************************************************)
EXTENDS Integers, Sequences, FiniteSets, TLC

VARIABLES
  tasks,   \* Tasks.tasks of the aggregate in memory
  notes,   \* Notes.notes of the aggregate in memory
  group,   \* <<Tasks.id, Notes.id>> of the aggregate in memory
  last,    \* the store call just made
  file,    \* the database file
  io,      \* the save or load just made
  inv,     \* the command invocations: where each is, and its locals
  started, \* how many command invocations have started
  used     \* the identities Uuid::new_v4 has given out

vars == <<tasks, notes, group, last, file, io, inv, started, used>>

cmdVars == <<inv, started, used>>

(***************************************************************************)
(* Bounds of the model.                                                    *)
(***************************************************************************)
\* identities are 1..MaxId (a Uuid is compared as a 128-bit number)
MaxId == 3
\* records held by the two stores of the store-level specification together
MaxRecords == 3

Ids == 1..MaxId

\* Option<T>: None is the empty set and Some(x) the set holding x alone
None == {}
Some(x) == {x}

(***************************************************************************)
(* Records.                                                                *)
(***************************************************************************)
\* Task::new
Task_new(id, created, content, priority) ==
  [id |-> id, priority |-> priority, created |-> created, due |-> None,
   content |-> content, task_type |-> None, repeat |-> None, depends |-> {}]

\* a plausible slip: the constructor drops the classification it is given
Task_new_date_untyped(id, created, content, priority, due, task_type, repeat) ==
  [id |-> id, priority |-> priority, created |-> created, due |-> due,
   content |-> content, task_type |-> None, repeat |-> repeat,
   depends |-> {}]

\* Task::new_date
Task_new_date(id, created, content, priority, due, task_type, repeat) ==
  [id |-> id, priority |-> priority, created |-> created, due |-> due,
   content |-> content, task_type |-> Some(task_type), repeat |-> repeat,
   depends |-> {}]

\* a plausible slip: the dependency replaces the set instead of joining it
add_dependency_overwrite(task, task_id) ==
  [task EXCEPT !.depends = {task_id}]

\* Task::add_dependency: HashSet::insert of the identity
add_dependency(task, task_id) ==
  [task EXCEPT !.depends = @ \cup {task_id}]

\* the caller's loop `for dep in deps { task.add_dependency(&uuid) }`
RECURSIVE add_dependencies(_, _)
add_dependencies(task, deps) ==
  IF deps = <<>> THEN task
  ELSE add_dependencies(add_dependency(task, Head(deps)), Tail(deps))

\* Note::new
Note_new(id, created, content) ==
  [id |-> id, created |-> created, content |-> content]

(***************************************************************************)
(* The inputs of the store-level operations: how a caller builds a task    *)
(* (constructor, then its add_dependency calls) and a note.                *)
(***************************************************************************)
TaskBuilds ==
  { [ctor |-> "new", created |-> 1, content |-> "a", priority |-> 0,
     due |-> None, task_type |-> "", repeat |-> None, deps |-> <<>>],
    [ctor |-> "new_date", created |-> 2, content |-> "ab", priority |-> 1,
     due |-> Some(2), task_type |-> "Deadline", repeat |-> None,
     deps |-> <<2, 2>>],
    [ctor |-> "new_date", created |-> 1, content |-> "b", priority |-> 2,
     due |-> None, task_type |-> "Repeated", repeat |-> Some("Weekly"),
     deps |-> <<1, 3>>] }

BuildTask(id, b) ==
  add_dependencies(
    IF b.ctor = "new"
    THEN Task_new(id, b.created, b.content, b.priority)
    ELSE Task_new_date(id, b.created, b.content, b.priority, b.due,
                       b.task_type, b.repeat),
    b.deps)

NoteBuilds ==
  { [created |-> 1, content |-> "a"], [created |-> 2, content |-> "ab"] }

BuildNote(id, b) == Note_new(id, b.created, b.content)

(***************************************************************************)
(* The ordered store: Vec<Task> / Vec<Note> kept sorted by identity.       *)
(***************************************************************************)
\* one step of the stable sort: r goes after every element whose identity
\* is not greater than its own
RECURSIVE InsertStable(_, _)
InsertStable(s, r) ==
  IF s = <<>> THEN <<r>>
  ELSE IF s[Len(s)].id <= r.id THEN Append(s, r)
  ELSE Append(InsertStable(SubSeq(s, 1, Len(s) - 1), r), s[Len(s)])

\* Vec::sort_by(|l, r| l.partial_cmp(r).unwrap()): stable, by identity only
RECURSIVE SortById(_)
SortById(s) ==
  IF s = <<>> THEN <<>>
  ELSE InsertStable(SortById(SubSeq(s, 1, Len(s) - 1)), s[Len(s)])

\* a plausible slip: a record of an identity already stored replaces the
\* record stored
StoreAddReplace(s, r) ==
  SortById(Append(SelectSeq(s, LAMBDA x : x.id # r.id), r))

\* a plausible slip: the record is pushed and the sequence is not sorted
StoreAddUnsorted(s, r) == Append(s, r)

\* Tasks::add / Notes::add: push, then sort
StoreAdd(s, r) == SortById(Append(s, r))

\* slice::binary_search_by(|probe| probe.id.cmp(&id)), whose result is an
\* index for Ok(index) and 0 for Err(_).  With several matches the standard
\* library may return any of them, "chosen deterministically, but subject to
\* change" between its versions: the two algorithms it has shipped follow.
\* Positions are counted from 0 as in the library, s[k + 1] is its s[k].

\* the loop that halves `size` and keeps `base` at the last probe that was
\* not greater than the key
RECURSIVE SearchBase(_, _, _, _)
SearchBase(s, id, base, size) ==
  IF size > 1
  THEN LET half == size \div 2
           mid == base + half
       IN SearchBase(s, id, IF s[mid + 1].id > id THEN base ELSE mid,
                     size - half)
  ELSE base

BinarySearchHalving(s, id) ==
  IF Len(s) = 0 THEN 0
  ELSE LET base == SearchBase(s, id, 0, Len(s))
       IN IF s[base + 1].id = id THEN base + 1 ELSE 0

\* the loop over [left, right) that returns at the first probe that matches
RECURSIVE BinarySearchEarly(_, _, _, _)
BinarySearchEarly(s, id, left, right) ==
  IF left >= right THEN 0
  ELSE LET mid == left + ((right - left) \div 2)
       IN IF s[mid + 1].id < id THEN BinarySearchEarly(s, id, mid + 1, right)
          ELSE IF s[mid + 1].id > id THEN BinarySearchEarly(s, id, left, mid)
          ELSE mid + 1

\* the results binary_search_by may give, one per version of the library
Search(s, id) ==
  { BinarySearchHalving(s, id), BinarySearchEarly(s, id, 0, Len(s)) }

\* Vec::remove(index)
RemoveAt(s, index) ==
  [i \in 1..(Len(s) - 1) |-> IF i < index THEN s[i] ELSE s[i + 1]]

\* a plausible slip: every record of that identity goes
StoreRemoveAll(s, index) ==
  IF index = 0 THEN s ELSE SelectSeq(s, LAMBDA r : r.id # s[index].id)

\* a plausible slip: Err(index) is used as a position too
StoreRemoveErr(s, index) ==
  IF index = 0 THEN SubSeq(s, 2, Len(s)) ELSE RemoveAt(s, index)

\* a plausible slip: the removal also takes the identity removed out of the
\* dependency sets of the records that stay
StoreRemoveCascade(s, index) ==
  IF index = 0 THEN s
  ELSE [i \in 1..(Len(s) - 1) |->
          IF "depends" \in DOMAIN s[index]
          THEN [RemoveAt(s, index)[i] EXCEPT !.depends = @ \ { s[index].id }]
          ELSE RemoveAt(s, index)[i]]

\* Tasks::remove / Notes::remove, given the binary search's result
StoreRemove(s, index) ==
  IF index = 0 THEN s ELSE RemoveAt(s, index)

\* Notes::get_note, given the binary search's result
StoreGet(s, index) ==
  IF index = 0 THEN None ELSE Some(s[index])

IdsOf(s) == { s[i].id : i \in 1..Len(s) }

Range(s) == { s[i] : i \in 1..Len(s) }

(***************************************************************************)
(* The Database aggregate and its MessagePack codec.  Bytes are modelled   *)
(* as MessagePack's items: an array header with its length, a binary       *)
(* (the 16 bytes of a Uuid), a string, an unsigned integer, nil.           *)
(***************************************************************************)
\* Database { tasks: Tasks { id, group_name, tasks }, notes: Notes { .. } }
Database(g, ts, ns) ==
  [tasks |-> [id |-> g[1], group_name |-> "root", tasks |-> ts],
   notes |-> [id |-> g[2], group_name |-> "root", notes |-> ns]]

Tok(t, n, str) == [t |-> t, n |-> n, s |-> str]

\* the instants of the model and chrono's RFC 3339 text for each
Times == {1, 2}

FormatTime(t) ==
  IF t = 1 THEN "2020-03-01T10:00:00.000000001Z" ELSE "2020-03-02T09:30:00Z"

\* the variant indices serde gives the unit variants
TaskTypeIndex(v) == IF v = "Deadline" THEN 0 ELSE 1

RepeatTypeIndex(v) == IF v = "Daily" THEN 0 ELSE IF v = "Weekly" THEN 1 ELSE 2

EncNil == <<Tok("nil", 0, "")>>

EncUuid(id) == <<Tok("bin", id, "")>>

EncStr(str) == <<Tok("str", 0, str)>>

EncUint(n) == <<Tok("uint", n, "")>>

EncTime(t) == EncStr(FormatTime(t))

EncArray(n) == <<Tok("array", n, "")>>

\* the orders in which a HashSet may iterate over its elements
Orders(S) == { o \in [1..Cardinality(S) -> S] : Range(o) = S }

\* a plausible slip: the repetition period is left out (always nil)
serialize_task_no_repeat(t, order) ==
  EncArray(8) \o EncUuid(t.id) \o EncUint(t.priority) \o EncTime(t.created)
    \o (IF t.due = None THEN EncNil ELSE EncTime(CHOOSE d \in t.due : TRUE))
    \o EncStr(t.content)
    \o (IF t.task_type = None THEN EncNil
        ELSE EncUint(TaskTypeIndex(CHOOSE v \in t.task_type : TRUE)))
    \o EncNil
    \o EncArray(Len(order)) \o [i \in 1..Len(order) |-> Tok("bin", order[i], "")]

\* derive(Serialize) of Task: its eight fields in declaration order, the
\* dependency set as the array of its elements in iteration order
serialize_task(t, order) ==
  EncArray(8) \o EncUuid(t.id) \o EncUint(t.priority) \o EncTime(t.created)
    \o (IF t.due = None THEN EncNil ELSE EncTime(CHOOSE d \in t.due : TRUE))
    \o EncStr(t.content)
    \o (IF t.task_type = None THEN EncNil
        ELSE EncUint(TaskTypeIndex(CHOOSE v \in t.task_type : TRUE)))
    \o (IF t.repeat = None THEN EncNil
        ELSE EncUint(RepeatTypeIndex(CHOOSE v \in t.repeat : TRUE)))
    \o EncArray(Len(order)) \o [i \in 1..Len(order) |-> Tok("bin", order[i], "")]

\* derive(Serialize) of Note
serialize_note(n) ==
  EncArray(3) \o EncUuid(n.id) \o EncTime(n.created) \o EncStr(n.content)

\* the encodings of Vec<Task>, one per iteration order of the sets in it
RECURSIVE serialize_tasks(_)
serialize_tasks(ts) ==
  IF ts = <<>> THEN { <<>> }
  ELSE { serialize_task(Head(ts), o) \o rest :
           o \in Orders(Head(ts).depends), rest \in serialize_tasks(Tail(ts)) }

RECURSIVE serialize_notes(_)
serialize_notes(ns) ==
  IF ns = <<>> THEN <<>>
  ELSE serialize_note(Head(ns)) \o serialize_notes(Tail(ns))

\* Database::serialize_msgpack: the byte buffers it may return
serialize_msgpack(db) ==
  { EncArray(2)
      \o EncArray(3) \o EncUuid(db.tasks.id) \o EncStr(db.tasks.group_name)
      \o EncArray(Len(db.tasks.tasks)) \o ts
      \o EncArray(3) \o EncUuid(db.notes.id) \o EncStr(db.notes.group_name)
      \o EncArray(Len(db.notes.notes)) \o serialize_notes(db.notes.notes) :
    ts \in serialize_tasks(db.tasks.tasks) }

\* The decoder reads one value at a position of the buffer and gives the
\* value and the position after it, or fails.
Fail == [ok |-> FALSE, v |-> 0, pos |-> 0]

Ok(v, pos) == [ok |-> TRUE, v |-> v, pos |-> pos]

At(buf, pos) ==
  IF pos >= 1 /\ pos <= Len(buf) THEN buf[pos] ELSE Tok("eof", 0, "")

DecUuid(buf, pos) ==
  IF At(buf, pos).t = "bin" THEN Ok(At(buf, pos).n, pos + 1) ELSE Fail

DecStr(buf, pos) ==
  IF At(buf, pos).t = "str" THEN Ok(At(buf, pos).s, pos + 1) ELSE Fail

DecUint(buf, pos) ==
  IF At(buf, pos).t = "uint" THEN Ok(At(buf, pos).n, pos + 1) ELSE Fail

\* DateTime<Utc>: a string that parses as RFC 3339
DecTime(buf, pos) ==
  LET str == DecStr(buf, pos)
  IN IF str.ok /\ \E t \in Times : FormatTime(t) = str.v
     THEN Ok(CHOOSE t \in Times : FormatTime(t) = str.v, str.pos)
     ELSE Fail

DecOptionTime(buf, pos) ==
  IF At(buf, pos).t = "nil" THEN Ok(None, pos + 1)
  ELSE LET d == DecTime(buf, pos) IN IF d.ok THEN Ok(Some(d.v), d.pos) ELSE Fail

\* an Option of a unit variant among `names`, given by its index
DecOptionVariant(names, buf, pos) ==
  IF At(buf, pos).t = "nil" THEN Ok(None, pos + 1)
  ELSE LET i == DecUint(buf, pos)
       IN IF i.ok /\ i.v < Len(names) THEN Ok(Some(names[i.v + 1]), i.pos)
          ELSE Fail

\* an array header: its length
DecArray(buf, pos) ==
  IF At(buf, pos).t = "array" THEN Ok(At(buf, pos).n, pos + 1) ELSE Fail

\* the element of a set of one: { e : r \in {x} } computes x once for e
The(S) == CHOOSE x \in S : TRUE

\* n identities, inserted into a HashSet one by one
RECURSIVE DecIds(_, _, _)
DecIds(buf, pos, n) ==
  IF n = 0 THEN Ok({}, pos)
  ELSE The({ IF ~id.ok THEN Fail
             ELSE The({ IF rest.ok THEN Ok({id.v} \cup rest.v, rest.pos)
                        ELSE Fail :
                        rest \in { DecIds(buf, id.pos, n - 1) } }) :
             id \in { DecUuid(buf, pos) } })

\* HashSet<Uuid>
DecIdSet(buf, pos) ==
  The({ IF n.ok THEN DecIds(buf, n.pos, n.v) ELSE Fail :
        n \in { DecArray(buf, pos) } })

\* one field of a struct, by its type
DecField(type, buf, pos) ==
  CASE type = "Uuid" -> DecUuid(buf, pos)
    [] type = "u32" -> DecUint(buf, pos)
    [] type = "String" -> DecStr(buf, pos)
    [] type = "DateTime" -> DecTime(buf, pos)
    [] type = "Option<DateTime>" -> DecOptionTime(buf, pos)
    [] type = "Option<TaskType>" ->
         DecOptionVariant(<<"Deadline", "Repeated">>, buf, pos)
    [] type = "Option<RepeatType>" ->
         DecOptionVariant(<<"Daily", "Weekly", "Monthly">>, buf, pos)
    [] type = "HashSet<Uuid>" -> DecIdSet(buf, pos)

\* the fields of a struct one after the other: their values, in order
RECURSIVE DecFields(_, _, _, _)
DecFields(types, buf, pos, vals) ==
  IF types = <<>> THEN Ok(vals, pos)
  ELSE The({ IF r.ok
             THEN DecFields(Tail(types), buf, r.pos, Append(vals, r.v))
             ELSE Fail :
             r \in { DecField(Head(types), buf, pos) } })

\* a struct is an array of as many items as it has fields
DecStruct(types, len, buf, pos) ==
  IF At(buf, pos) = Tok("array", len, "")
  THEN DecFields(types, buf, pos + 1, <<>>)
  ELSE Fail

TaskFields ==
  <<"Uuid", "u32", "DateTime", "Option<DateTime>", "String",
    "Option<TaskType>", "Option<RepeatType>", "HashSet<Uuid>">>

NoteFields == <<"Uuid", "DateTime", "String">>

\* derive(Deserialize) of Task
deserialize_task(buf, pos) ==
  The({ IF r.ok
        THEN Ok([id |-> r.v[1], priority |-> r.v[2], created |-> r.v[3],
                 due |-> r.v[4], content |-> r.v[5], task_type |-> r.v[6],
                 repeat |-> r.v[7], depends |-> r.v[8]], r.pos)
        ELSE Fail :
        r \in { DecStruct(TaskFields, Len(TaskFields), buf, pos) } })

\* derive(Deserialize) of Note
deserialize_note(buf, pos) ==
  The({ IF r.ok
        THEN Ok([id |-> r.v[1], created |-> r.v[2], content |-> r.v[3]], r.pos)
        ELSE Fail :
        r \in { DecStruct(NoteFields, Len(NoteFields), buf, pos) } })

\* the n records of a Vec<Task> (kind "tasks") or a Vec<Note>
RECURSIVE DecRecords(_, _, _, _)
DecRecords(kind, buf, pos, n) ==
  IF n = 0 THEN Ok(<<>>, pos)
  ELSE The({ IF ~r.ok THEN Fail
             ELSE The({ IF rest.ok THEN Ok(<<r.v>> \o rest.v, rest.pos)
                        ELSE Fail :
                        rest \in { DecRecords(kind, buf, r.pos, n - 1) } }) :
             r \in { IF kind = "tasks" THEN deserialize_task(buf, pos)
                     ELSE deserialize_note(buf, pos) } })

\* derive(Deserialize) of Tasks { id, group_name, tasks } and of
\* Notes { id, group_name, notes }: the identity, the name, the records
DecStore(kind, buf, pos) ==
  The({ IF ~head.ok THEN Fail
        ELSE The({ IF ~n.ok THEN Fail
                   ELSE The({ IF recs.ok
                              THEN Ok(<<head.v[1], head.v[2], recs.v>>, recs.pos)
                              ELSE Fail :
                              recs \in { DecRecords(kind, buf, n.pos, n.v) } }) :
                   n \in { DecArray(buf, head.pos) } }) :
        head \in { DecStruct(<<"Uuid", "String">>, 3, buf, pos) } })

\* derive(Deserialize) of Database { tasks, notes }; what follows the value
\* in the buffer is not looked at
deserialize_database(buf) ==
  IF At(buf, 1) # Tok("array", 2, "") THEN Fail
  ELSE The({ IF ~ts.ok THEN Fail
             ELSE The({ IF ns.ok
                        THEN Ok([tasks |-> [id |-> ts.v[1],
                                            group_name |-> ts.v[2],
                                            tasks |-> ts.v[3]],
                                 notes |-> [id |-> ns.v[1],
                                            group_name |-> ns.v[2],
                                            notes |-> ns.v[3]]], ns.pos)
                        ELSE Fail :
                        ns \in { DecStore("notes", buf, ts.pos) } }) :
             ts \in { DecStore("tasks", buf, 2) } })

\* io::Result<Database>: Ok(db), or an io::Error of a kind
IoOk(db) == [kind |-> "Ok", db |-> Some(db)]

IoErr(kind) == [kind |-> kind, db |-> None]

\* a plausible slip: the decode fault takes the kind of a missing file
deserialize_msgpack_not_found(buf) ==
  The({ IF r.ok THEN IoOk(r.v) ELSE IoErr("NotFound") :
        r \in { deserialize_database(buf) } })

\* Database::deserialize_msgpack: a decode fault is an io::Error of kind Other
deserialize_msgpack(buf) ==
  The({ IF r.ok THEN IoOk(r.v) ELSE IoErr("Other") :
        r \in { deserialize_database(buf) } })


(***************************************************************************)
(* Whole-file persistence.                                                 *)
(***************************************************************************)
NoFile == [exists |-> FALSE, bytes |-> <<>>]

FileOf(buf) == [exists |-> TRUE, bytes |-> buf]

\* how many items reach the file before a write to it fails
FaultCuts(buf) == { Len(buf) \div 2 }

\* File::create: it fails and leaves the file alone, or leaves it empty
create(f) ==
  { [res |-> IoErr("PermissionDenied"), file |-> f],
    [res |-> [kind |-> "Ok", db |-> None], file |-> FileOf(<<>>)] }

\* a plausible slip: the file is opened for appending
WriteAppend(f, buf, k) == FileOf(f.bytes \o SubSeq(buf, 1, k))

\* the first k items of buf written from the start of the file: what the
\* file held beyond them (written by another process since File::create)
\* stays
WriteAt0(f, buf, k) ==
  FileOf(SubSeq(buf, 1, k) \o SubSeq(f.bytes, k + 1, Len(f.bytes)))

\* write_all on the BufWriter and its drop, on the file as it is then.  A
\* buffer shorter than the BufWriter's capacity is only copied, write_all
\* returns Ok, and the bytes go to the file when the BufWriter is dropped,
\* where a write fault is discarded; a longer buffer is written at once
\* and a fault is returned.  The model does not count the bytes of a
\* buffer, so both cases are kept for every buffer.
write_all(f, buf) ==
  { [res |-> [kind |-> "Ok", db |-> None], file |-> WriteAt0(f, buf, Len(buf)),
     cut |-> FALSE] }
  \cup { [res |-> [kind |-> "Ok", db |-> None], file |-> WriteAt0(f, buf, k),
          cut |-> TRUE] : k \in FaultCuts(buf) }
  \cup { [res |-> IoErr("StorageFull"), file |-> WriteAt0(f, buf, k),
          cut |-> TRUE] : k \in FaultCuts(buf) }

\* write_to_disk: the results it may return, each with the file it leaves
write_to_disk(f, buf) ==
  UNION { IF c.res.kind # "Ok" THEN { c }
          ELSE { [res |-> w.res, file |-> w.file] : w \in write_all(c.file, buf) } :
          c \in create(f) }

\* Database::to_disk
to_disk(db, f) ==
  UNION { write_to_disk(f, buf) : buf \in serialize_msgpack(db) }

\* the faults File::open and read_to_end may meet on a file that exists
ReadFaults == { "none", "PermissionDenied" }

\* read_from_disk: Ok (the bytes are f.bytes) or the io::Error
read_from_disk(f, fault) ==
  IF ~f.exists THEN IoErr("NotFound")
  ELSE IF fault # "none" THEN IoErr(fault)
  ELSE [kind |-> "Ok", db |-> None]

\* Database::from_disk
from_disk(f, fault) ==
  IF read_from_disk(f, fault).kind # "Ok" THEN read_from_disk(f, fault)
  ELSE deserialize_msgpack(f.bytes)


(***************************************************************************)
(* The commands: `task add|rm|ls` (handle_task, handle_it of taskmaster)   *)
(* and `note add|rm|ls` (handle_it of notetaker).                          *)
(***************************************************************************)
\* the identities Uuid::new_v4 gives the two stores of Database::default
\* (no command reads them)
DefaultGroup == <<1, 2>>

\* str::contains on the contents and search texts of the model
Contains(content, search) ==
  <<content, search>> \in
    { <<"a", "a">>, <<"ab", "a">>, <<"ab", "b">>, <<"ab", "ab">>, <<"b", "b">> }

\* str::to_lowercase / to_ascii_lowercase on the texts of the model
Lower(str) ==
  CASE str = "Y" -> "y"
    [] str = "N" -> "n"
    [] str = "Weekly" -> "weekly"
    [] OTHER -> str

\* str::parse::<u32>: the number, or -1 for a text that is none
ParseU32(str) ==
  CASE str = "0" -> 0
    [] str = "1" -> 1
    [] str = "2" -> 2
    [] OTHER -> -1

\* the hyphenated text of each identity
UuidTexts ==
  <<"00000000-0000-0000-0000-000000000001",
    "00000000-0000-0000-0000-000000000002",
    "00000000-0000-0000-0000-000000000003",
    "00000000-0000-0000-0000-000000000004",
    "00000000-0000-0000-0000-000000000005">>

\* Uuid::parse_str: the identity, or 0 for a text that is none
ParseUuid(str) ==
  IF \E i \in 1..Len(UuidTexts) : UuidTexts[i] = str
  THEN CHOOSE i \in 1..Len(UuidTexts) : UuidTexts[i] = str
  ELSE 0

\* DateTime::parse_from_rfc2822, then with_timezone(&Utc): the instant, or
\* 0 for a text that is no date
ParseRfc2822(str) ==
  CASE str = "Mon, 2 Mar 2020 09:30:00 +0000" -> 2
    [] str = "Mon, 2 Mar 2020 10:30:00 +0100" -> 2
    [] OTHER -> 0

\* the arguments of `task add`: a text, or None for an option not given
TaskAddArgs ==
  { [content |-> "a", priority |-> None, repeats |-> None, due |-> None,
     depends |-> <<>>],
    [content |-> "ab", priority |-> Some("1"), repeats |-> None,
     due |-> Some("Mon, 2 Mar 2020 09:30:00 +0000"),
     depends |-> <<UuidTexts[1]>>],
    [content |-> "b", priority |-> Some("2"), repeats |-> Some("Weekly"),
     due |-> None, depends |-> <<UuidTexts[2], UuidTexts[2]>>],
    [content |-> "ab", priority |-> None, repeats |-> Some("yearly"),
     due |-> None, depends |-> <<>>],
    [content |-> "a", priority |-> None, repeats |-> None,
     due |-> Some("tomorrow"), depends |-> <<>>],
    [content |-> "b", priority |-> None, repeats |-> None, due |-> None,
     depends |-> <<UuidTexts[1], "zz">>],
    [content |-> "a", priority |-> Some("-1"), repeats |-> None,
     due |-> None, depends |-> <<>>],
    [content |-> "ab", priority |-> None, repeats |-> Some("daily"),
     due |-> Some("Mon, 2 Mar 2020 10:30:00 +0100"), depends |-> <<>>] }

\* the answers a user may give at the prompt of `rm`; "eof" is the end of
\* the standard input
Lines == { "y", "Y", "n", "N", "", "maybe", "eof" }

Commands ==
  { [kind |-> "task", sub |-> "add", add |-> a, search |-> ""] :
      a \in TaskAddArgs }
  \cup { [kind |-> "note", sub |-> "add",
          add |-> [content |-> c, priority |-> None, repeats |-> None,
                   due |-> None, depends |-> <<>>],
          search |-> ""] : c \in { "a", "ab" } }
  \cup { [kind |-> k, sub |-> sub,
          add |-> [content |-> "", priority |-> None, repeats |-> None,
                   due |-> None, depends |-> <<>>],
          search |-> text] :
      k \in { "task", "note" }, sub \in { "rm" }, text \in { "a", "b" } }
  \cup { [kind |-> k, sub |-> "ls",
          add |-> [content |-> "", priority |-> None, repeats |-> None,
                   due |-> None, depends |-> <<>>],
          search |-> ""] : k \in { "task", "note" } }

\* a plausible slip: a text that is no Uuid is skipped and the loop goes on
RECURSIVE parse_dependencies_skip(_, _)
parse_dependencies_skip(task, deps) ==
  IF deps = <<>> THEN [res |-> "Ok", task |-> task]
  ELSE IF ParseUuid(Head(deps)) = 0
       THEN parse_dependencies_skip(task, Tail(deps))
  ELSE parse_dependencies_skip(add_dependency(task, ParseUuid(Head(deps))),
                               Tail(deps))

\* the dependency loop of handle_task_add: each text is parsed and added,
\* and the first one that is no Uuid ends the handler with the fault
RECURSIVE parse_dependencies(_, _)
parse_dependencies(task, deps) ==
  IF deps = <<>> THEN [res |-> "Ok", task |-> task]
  ELSE IF ParseUuid(Head(deps)) = 0 THEN [res |-> "Other", task |-> task]
  ELSE parse_dependencies(add_dependency(task, ParseUuid(Head(deps))),
                          Tail(deps))

\* handle_task_add on the task store ts, with the identity and the instant
\* the constructor draws: the result, and the store afterwards
handle_task_add(a, ts, id, now) ==
  LET priority == IF a.priority = None THEN 0
                  ELSE ParseU32(CHOOSE str \in a.priority : TRUE)
      repeat_str == Lower(CHOOSE str \in a.repeats : TRUE)
      repeat == IF a.repeats = None THEN None
                ELSE CASE repeat_str = "daily" -> Some("Daily")
                       [] repeat_str = "weekly" -> Some("Weekly")
                       [] repeat_str = "monthly" -> Some("Monthly")
                       [] OTHER -> Some("bad")
      task_type == IF a.repeats # None THEN Some("Repeated")
                   ELSE IF a.due # None THEN Some("Deadline")
                   ELSE None
      datetime == IF a.due = None THEN None
                  ELSE Some(ParseRfc2822(CHOOSE str \in a.due : TRUE))
      task == IF task_type # None
              THEN Task_new_date(id, now, a.content, priority, datetime,
                                 CHOOSE v \in task_type : TRUE, repeat)
              ELSE Task_new(id, now, a.content, priority)
      deps == parse_dependencies(task, a.depends)
  IN IF priority < 0 THEN [res |-> "panic", tasks |-> ts, added |-> None]
     ELSE IF repeat = Some("bad")
          THEN [res |-> "Other", tasks |-> ts, added |-> None]
     ELSE IF datetime = Some(0)
          THEN [res |-> "Other", tasks |-> ts, added |-> None]
     ELSE IF deps.res # "Ok"
          THEN [res |-> "Other", tasks |-> ts, added |-> None]
     ELSE [res |-> "Ok", tasks |-> StoreAdd(ts, deps.task),
           added |-> Some(deps.task)]

\* handle_note_add
handle_note_add(a, ns, id, now) ==
  [res |-> "Ok", notes |-> StoreAdd(ns, Note_new(id, now, a.content)),
   added |-> Some(Note_new(id, now, a.content))]

\* the scan of handle_task_rm / handle_note_rm: the records whose content
\* contains the text, in the store's order
delete_me(s, search) == SelectSeq(s, LAMBDA r : Contains(r.content, search))

\* a plausible slip: only the first match is removed
remove_each_first(s, del) ==
  IF del = <<>> THEN { s }
  ELSE { StoreRemove(s, index) : index \in Search(s, Head(del).id) }

\* `for task in delete_me { tasks.remove(task.id) }`: the stores it may leave
RECURSIVE remove_each(_, _)
remove_each(s, del) ==
  IF del = <<>> THEN { s }
  ELSE UNION { remove_each(StoreRemove(s, index), Tail(del)) :
               index \in Search(s, Head(del).id) }

\* one step of Vec::sort_by_key(|k| k.created), which is stable
RECURSIVE InsertByCreated(_, _)
InsertByCreated(s, r) ==
  IF s = <<>> THEN <<r>>
  ELSE IF s[Len(s)].created <= r.created THEN Append(s, r)
  ELSE Append(InsertByCreated(SubSeq(s, 1, Len(s) - 1), r), s[Len(s)])

RECURSIVE SortByCreated(_)
SortByCreated(s) ==
  IF s = <<>> THEN <<>>
  ELSE InsertByCreated(SortByCreated(SubSeq(s, 1, Len(s) - 1)), s[Len(s)])

Reverse(s) == [i \in 1..Len(s) |-> s[Len(s) + 1 - i]]

\* handle_task_list / handle_note_list: the contents printed, latest first,
\* from a sorted copy of the store's sequence
handle_list(s) ==
  LET list == Reverse(SortByCreated(s)) IN [i \in 1..Len(list) |-> list[i].content]

\* a plausible slip: every fault of the load gives the default aggregate
load_or_default_lenient(loaded, g) ==
  IF loaded.kind = "Ok" THEN [res |-> "Ok", db |-> loaded.db]
  ELSE [res |-> "Ok", db |-> Some(Database(g, <<>>, <<>>))]

\* a plausible slip: every fault of the load is returned, that of a missing
\* file too
load_or_default_strict(loaded, g) ==
  IF loaded.kind = "Ok" THEN [res |-> "Ok", db |-> loaded.db]
  ELSE [res |-> loaded.kind, db |-> None]

\* the match on Database::from_disk at the head of handle_task / handle_it:
\* the aggregate loaded; a fault of kind Other returned; for a fault of any
\* other kind Database::default(), whose stores get the identities g
load_or_default(loaded, g) ==
  IF loaded.kind = "Ok" THEN [res |-> "Ok", db |-> loaded.db]
  ELSE IF loaded.kind = "Other" THEN [res |-> "Other", db |-> None]
  ELSE [res |-> "Ok", db |-> Some(Database(g, <<>>, <<>>))]

\* the processes that may run a command
Procs == { "p1", "p2" }

NoCommand ==
  [kind |-> "", sub |-> "",
   add |-> [content |-> "", priority |-> None, repeats |-> None,
            due |-> None, depends |-> <<>>],
   search |-> ""]

\* a process that runs no command.  Of an invocation: where it is (pc), its
\* arguments, the aggregate it holds, the kind of its load's result, the
\* file as it was at the load (file0) and the aggregate taken from the load
\* (db0), the matches of rm (del), the record add made (added), the result
\* it returns (res), what list printed, the buffer to_disk encoded (buf);
\* whether rm asked, the handler ran, the file was created (wrote), the
\* bytes were written (saved) and a write fault cut them short (cut); its
\* number (n), the invocations that created the file between its load and
\* its own File::create (staleBy), whether its write is the latest, and
\* the line last read at the prompt of rm
Idle ==
  [pc |-> "idle", cmd |-> NoCommand, db |-> Database(<<0, 0>>, <<>>, <<>>),
   loaded |-> "", del |-> <<>>, res |-> "", printed |-> <<>>,
   asked |-> FALSE, handled |-> FALSE, wrote |-> FALSE, file0 |-> NoFile,
   db0 |-> Database(<<0, 0>>, <<>>, <<>>), added |-> None, buf |-> <<>>,
   saved |-> FALSE, cut |-> FALSE, n |-> 0, staleBy |-> {}, latest |-> FALSE,
   line |-> ""]

NoDb == Idle.db


(***************************************************************************)
(* The store-level specification: the operations of Tasks and Notes called *)
(* in any order with any record.  last records the call just made: the     *)
(* store it was made on, its argument, the binary search's result, the     *)
(* store's sequence before the call, and for a remove whether it follows   *)
(* an add of a record of the same identity.                                *)
(***************************************************************************)
NoCall ==
  [op |-> "init", store |-> "", id |-> 0, rec |-> None, deps |-> <<>>,
   idx |-> 0, prev |-> <<>>, afterAdd |-> FALSE]

Call(op, store, id, rec, deps, idx, prev) ==
  [op |-> op, store |-> store, id |-> id, rec |-> rec, deps |-> deps,
   idx |-> idx, prev |-> prev,
   afterAdd |-> /\ op = "remove"
                /\ last.op = "add"
                /\ last.store = store
                /\ last.id = id]

NoIo == [op |-> "none", fault |-> "none", res |-> IoErr(""), before |-> NoFile]

Init ==
  /\ tasks = <<>>
  /\ notes = <<>>
  /\ group = <<1, 2>>
  /\ last = NoCall
  /\ file = NoFile
  /\ io = NoIo
  /\ inv = [p \in Procs |-> Idle]
  /\ started = 0
  /\ used = {}

HasRoom == Len(tasks) + Len(notes) < MaxRecords

\* Tasks::add of a task built by a constructor and add_dependency calls
TasksAdd ==
  \E id \in Ids, b \in TaskBuilds :
    /\ HasRoom
    /\ tasks' = StoreAdd(tasks, BuildTask(id, b))
    /\ last' = Call("add", "tasks", id, Some(BuildTask(id, b)), b.deps, 0, tasks)
    /\ UNCHANGED <<notes, group, file, io, cmdVars>>

\* Tasks::remove
TasksRemove ==
  \E id \in Ids :
    \E index \in Search(tasks, id) :
      /\ tasks' = StoreRemove(tasks, index)
      /\ last' = Call("remove", "tasks", id, None, <<>>, index, tasks)
      /\ UNCHANGED <<notes, group, file, io, cmdVars>>

\* Notes::add
NotesAdd ==
  \E id \in Ids, b \in NoteBuilds :
    /\ HasRoom
    /\ notes' = StoreAdd(notes, BuildNote(id, b))
    /\ last' = Call("add", "notes", id, Some(BuildNote(id, b)), <<>>, 0, notes)
    /\ UNCHANGED <<tasks, group, file, io, cmdVars>>

\* Notes::remove
NotesRemove ==
  \E id \in Ids :
    \E index \in Search(notes, id) :
      /\ notes' = StoreRemove(notes, index)
      /\ last' = Call("remove", "notes", id, None, <<>>, index, notes)
      /\ UNCHANGED <<tasks, group, file, io, cmdVars>>

\* Notes::get_note
NotesGet ==
  \E id \in Ids :
    \E index \in Search(notes, id) :
      /\ last' = Call("get", "notes", id, StoreGet(notes, index), <<>>, index, notes)
      /\ UNCHANGED <<tasks, notes, group, file, io, cmdVars>>

Next ==
  \/ TasksAdd
  \/ TasksRemove
  \/ NotesAdd
  \/ NotesRemove
  \/ NotesGet

Spec == Init /\ [][Next]_vars

\* the store the last call was made on, as it is now
Cur == IF last.store = "tasks" THEN tasks ELSE notes

(***************************************************************************)
(* Claims about the ordered store and the dependency set.                  *)
(***************************************************************************)
StrictlyAscending(s) == \A i \in 1..(Len(s) - 1) : s[i].id < s[i + 1].id

\* C1: after any sequence of add and remove calls with arbitrary records,
\* get_all of either store is in strictly ascending identity order: sorted
\* by identity, and no two records share an identity.
C1_StrictlyAscending ==
  /\ StrictlyAscending(tasks)
  /\ StrictlyAscending(notes)

\* Task's PartialEq compares the identity alone, Note's (derived) every field
RecordEq(store, a, b) == IF store = "tasks" THEN a.id = b.id ELSE a = b

\* C2: immediately after add(r), get(r.identity) returns a record equal to
\* r; and immediately after a following remove(r.identity),
\* get(r.identity) returns not-found.
C2_LookupCorrect ==
  /\ last.op = "add" =>
       \A index \in Search(Cur, last.id), r \in last.rec :
         /\ StoreGet(Cur, index) # None
         /\ \A got \in StoreGet(Cur, index) : RecordEq(last.store, got, r)
  /\ (last.op = "remove" /\ last.afterAdd) =>
       \A index \in Search(Cur, last.id) : StoreGet(Cur, index) = None

\* C3: remove(identity) on a store holding a record of that identity deletes
\* exactly one entry, one of that identity: the length drops by one, and
\* every other record is still there, unchanged and in the same order.
C3_RemoveDeletesOne ==
  (last.op = "remove" /\ last.id \in IdsOf(last.prev)) =>
    /\ Len(Cur) = Len(last.prev) - 1
    /\ \E i \in 1..Len(last.prev) :
         /\ last.prev[i].id = last.id
         /\ \A j \in 1..Len(Cur) :
              Cur[j] = IF j < i THEN last.prev[j] ELSE last.prev[j + 1]

C3_Witness ==
  /\ last.op = "remove"
  /\ last.id \in IdsOf(last.prev)
  /\ Len(last.prev) = 3
  /\ last.prev[2].id = last.id
  /\ last.prev[1].id < last.id

\* C4: remove(identity) with an identity no record of the store carries
\* leaves get_all exactly as it was.
C4_RemoveAbsentNoOp ==
  (last.op = "remove" /\ last.id \notin IdsOf(last.prev)) => Cur = last.prev

C4_Witness ==
  /\ last.op = "remove"
  /\ last.id \notin IdsOf(last.prev)
  /\ Len(last.prev) >= 2
  /\ last.prev[1].id < last.id
  /\ last.id < last.prev[2].id

\* C7: add_dependency is idempotent and set-valued: a task built with the
\* calls add_dependency(t, x) for x in deps holds exactly the identities of
\* deps, however often one is repeated; and for every stored task t and
\* identity x, a second add_dependency(t, x) changes nothing and the first
\* gives the previous set united with {x}.
C7_DependencyIdempotent ==
  /\ (last.op = "add" /\ last.store = "tasks") =>
       \A r \in last.rec : r.depends = Range(last.deps)
  /\ \A i \in 1..Len(tasks), x \in Ids :
       /\ add_dependency(add_dependency(tasks[i], x), x)
            = add_dependency(tasks[i], x)
       /\ add_dependency(tasks[i], x).depends = tasks[i].depends \cup {x}
       /\ add_dependency(tasks[i], x).id = tasks[i].id

C7_Witness ==
  /\ last.op = "add"
  /\ last.store = "tasks"
  /\ last.deps = <<2, 2>>
  /\ \E i \in 1..Len(tasks) : tasks[i].depends = {2}

\* C17: the dependency relation is purely referential.  A task is built and
\* added with the dependencies it was given whether or not they name a
\* stored task, itself and the members of a cycle included; and no call
\* changes a stored task: every task in the store after a call is the one
\* just added or was there before with the same dependency set, so a
\* removal leaves the dependency sets of the other tasks alone, also those
\* that name the task removed.
C17_PurelyReferential ==
  /\ (last.op = "add" /\ last.store = "tasks") =>
       \A r \in last.rec :
         /\ r.depends = Range(last.deps)
         /\ r \in Range(tasks)
  /\ last.store = "tasks" =>
       /\ Range(tasks) \subseteq Range(last.prev) \cup last.rec
       /\ last.op = "remove" =>
            \A i \in 1..Len(last.prev) :
              i # last.idx => last.prev[i] \in Range(tasks)

C17_Witness ==
  /\ last.op = "remove"
  /\ last.store = "tasks"
  /\ last.idx # 0
  /\ last.id \notin IdsOf(tasks)
  /\ \E i, j \in 1..Len(tasks) :
       /\ last.id \in tasks[i].depends
       /\ tasks[i].id \in tasks[i].depends
       /\ tasks[j].id \in tasks[i].depends
       /\ tasks[i].id \in tasks[j].depends
       /\ i # j

\* C19: add appends unconditionally.  After add(r) on any store, also one
\* that holds a record of r's identity, the store is one longer, r is in
\* it, the records it held are all there in the order they had, and when
\* the identity was already stored a record of that identity is next to r.
C19_AddAppends ==
  last.op = "add" =>
    \A r \in last.rec :
      /\ Len(Cur) = Len(last.prev) + 1
      /\ \E i \in 1..Len(Cur) :
           /\ Cur[i] = r
           /\ RemoveAt(Cur, i) = last.prev
           /\ last.id \in IdsOf(last.prev) =>
                \/ i > 1 /\ Cur[i - 1].id = r.id
                \/ i < Len(Cur) /\ Cur[i + 1].id = r.id

C19_Witness ==
  /\ last.op = "add"
  /\ Len(last.prev) = 2
  /\ last.prev[2].id = last.id
  /\ last.prev[1].id < last.id
  /\ \A r \in last.rec : r # last.prev[2] /\ Cur[3] = r

\* the linear scan: the indexes of the records of s that carry the identity
Scan(s, id) == { i \in 1..Len(s) : s[i].id = id }

\* C23: in every store state reachable by add and remove the binary search
\* agrees with a linear scan.  For every identity, whichever match the
\* search settles on: get returns a record if and only if some stored
\* record carries the identity, the record returned carries it, and remove
\* deletes a record (one that carries it) if and only if one is stored.
C23_SearchAgreesWithScan ==
  \A s \in { tasks, notes }, id \in Ids :
    \A index \in Search(s, id) :
      /\ index # 0 <=> Scan(s, id) # {}
      /\ index # 0 => index \in Scan(s, id)
      /\ StoreGet(s, index) # None <=> Scan(s, id) # {}
      /\ \A r \in StoreGet(s, index) : r.id = id
      /\ Len(StoreRemove(s, index))
           = IF Scan(s, id) # {} THEN Len(s) - 1 ELSE Len(s)
      /\ Scan(s, id) = {} => StoreRemove(s, index) = s

C23_Witness ==
  /\ last.op = "remove"
  /\ last.idx # 0
  /\ Len(tasks) = 2
  /\ tasks[1].id = tasks[2].id
  /\ tasks[1] # tasks[2]
  /\ last.store = "tasks"
  /\ Len(last.prev) = 3
  /\ \E id \in Ids : id > tasks[2].id /\ Scan(tasks, id) = {}

(***************************************************************************)
(* The persistence specification: an aggregate is built in memory with the *)
(* store operations, saved over whatever the file holds, and loaded.       *)
(***************************************************************************)
\* records of the aggregate of the persistence specification
MaxDbRecords == 2

Db == Database(group, tasks, notes)

LongDb ==
  Database(<<2, 1>>,
           <<BuildTask(1, CHOOSE b \in TaskBuilds : b.ctor = "new"),
             BuildTask(3, CHOOSE b \in TaskBuilds : b.deps = <<1, 3>>)>>,
           <<BuildNote(2, CHOOSE b \in NoteBuilds : b.created = 2)>>)

LongBuf == CHOOSE buf \in serialize_msgpack(LongDb) : TRUE

ShortBuf == CHOOSE buf \in serialize_msgpack(Database(<<2, 3>>, <<>>, <<>>)) : TRUE

\* what the file may hold at the start: nothing, a longer encoding, a
\* shorter one, one cut short by an earlier write fault
InitialFiles ==
  { NoFile, FileOf(LongBuf), FileOf(ShortBuf),
    FileOf(SubSeq(LongBuf, 1, Len(LongBuf) \div 2)) }

DiskInit ==
  /\ tasks = <<>>
  /\ notes = <<>>
  /\ group \in { <<1, 2>>, <<3, 1>> }
  /\ last = NoCall
  /\ file \in InitialFiles
  /\ io = NoIo
  /\ inv = [p \in Procs |-> Idle]
  /\ started = 0
  /\ used = {}

DbHasRoom == Len(tasks) + Len(notes) < MaxDbRecords

DbTasksAdd ==
  \E id \in Ids, b \in TaskBuilds :
    /\ io.op = "none"
    /\ DbHasRoom
    /\ tasks' = StoreAdd(tasks, BuildTask(id, b))
    /\ UNCHANGED <<notes, group, last, file, io, cmdVars>>

DbTasksRemove ==
  \E id \in Ids :
    \E index \in Search(tasks, id) :
      /\ io.op = "none"
      /\ tasks' = StoreRemove(tasks, index)
      /\ UNCHANGED <<notes, group, last, file, io, cmdVars>>

DbNotesAdd ==
  \E id \in Ids, b \in NoteBuilds :
    /\ io.op = "none"
    /\ DbHasRoom
    /\ notes' = StoreAdd(notes, BuildNote(id, b))
    /\ UNCHANGED <<tasks, group, last, file, io, cmdVars>>

DbNotesRemove ==
  \E id \in Ids :
    \E index \in Search(notes, id) :
      /\ io.op = "none"
      /\ notes' = StoreRemove(notes, index)
      /\ UNCHANGED <<tasks, group, last, file, io, cmdVars>>

\* Database::to_disk of the aggregate in memory
Save ==
  \E out \in to_disk(Db, file) :
    /\ io.op = "none"
    /\ file' = out.file
    /\ io' = [op |-> "save", fault |-> "none", res |-> out.res, before |-> file]
    /\ UNCHANGED <<tasks, notes, group, last, cmdVars>>

\* Database::from_disk
Load ==
  \E fault \in ReadFaults :
    /\ io.op \in { "none", "save" }
    /\ io' = [op |-> "load", fault |-> fault, res |-> from_disk(file, fault),
              before |-> file]
    /\ UNCHANGED <<tasks, notes, group, last, file, cmdVars>>

DiskNext ==
  \/ DbTasksAdd
  \/ DbTasksRemove
  \/ DbNotesAdd
  \/ DbNotesRemove
  \/ Save
  \/ Load

SpecDisk == DiskInit /\ [][DiskNext]_vars

(***************************************************************************)
(* Claims about the codec and the persistence.                             *)
(***************************************************************************)
\* C5: for every aggregate A reachable through construction, add, remove
\* and add_dependency, decode(encode(A)) succeeds and equals A field for
\* field, whichever order the dependency sets were written in.
C5_CodecRoundTrip ==
  \A buf \in serialize_msgpack(Db) : deserialize_msgpack(buf) = IoOk(Db)

C5_Witness ==
  /\ io.op = "load"
  /\ io.res = IoOk(Db)
  /\ Len(notes) = 1
  /\ \E i \in 1..Len(tasks) :
       /\ tasks[i].depends = {1, 3}
       /\ tasks[i].repeat = Some("Weekly")
       /\ tasks[i].due = None

\* C6: after save(A, path) returns successfully, whatever the file held
\* before, load(path) returns an aggregate equal to A.
C6_SaveLoadRoundTrip ==
  (io.op = "save" /\ io.res.kind = "Ok") => from_disk(file, "none") = IoOk(Db)

\* C8: load on a path where no file exists fails with NotFound, load on an
\* existing file whose bytes are not a valid encoding fails with the decode
\* fault (kind Other), and neither returns an aggregate.
C8_LoadFaults ==
  io.op = "load" =>
    /\ ~io.before.exists => io.res = IoErr("NotFound")
    /\ ( /\ io.before.exists
         /\ io.fault = "none"
         /\ ~deserialize_database(io.before.bytes).ok ) =>
       io.res = IoErr("Other")
    /\ io.res.kind \in { "NotFound", "Other" } => io.res.db = None

C8_Witness ==
  /\ io.op = "load"
  /\ io.before.exists
  /\ io.fault = "none"
  /\ io.res = IoErr("Other")
  /\ Len(io.before.bytes) > 0

\* C18: encode is deterministic: the aggregate has one encoding, whatever
\* the order its dependencies were inserted in and whether it was built in
\* memory or decoded, so encoding what an encoding decodes to gives that
\* encoding again.
C18_EncodeDeterministic ==
  \A buf \in serialize_msgpack(Db) :
    /\ serialize_msgpack(Db) = { buf }
    /\ \A db \in deserialize_msgpack(buf).db : serialize_msgpack(db) = { buf }

(***************************************************************************)
(* The command specification: command invocations run one after the other *)
(* against the database file.  An invocation loads the aggregate, runs its *)
(* handler, saves, and exits.                                              *)
(***************************************************************************)
\* command invocations of one run
MaxCmds == 2

\* an aggregate earlier invocations may have left: two tasks, no note
StoredDb ==
  Database(DefaultGroup,
           <<Task_new(1, 2, "ab", 0),
             add_dependency(Task_new_date(3, 1, "a", 1, Some(2), "Deadline",
                                          None), 1)>>,
           <<>>)

\* the file at the start, with the identities its records carry: no file,
\* one cut short by an earlier write fault, one that holds StoredDb
CmdInit ==
  /\ tasks = <<>>
  /\ notes = <<>>
  /\ group = DefaultGroup
  /\ last = NoCall
  /\ \/ file = NoFile /\ used = {}
     \/ file = FileOf(SubSeq(ShortBuf, 1, Len(ShortBuf) \div 2)) /\ used = {}
     \/ /\ file \in { FileOf(buf) : buf \in serialize_msgpack(StoredDb) }
        /\ used = IdsOf(StoredDb.tasks.tasks)
  /\ io = NoIo
  /\ inv = [p \in Procs |-> Idle]
  /\ started = 0

\* the store a command is addressed to
StoreOf(db, kind) == IF kind = "task" THEN db.tasks.tasks ELSE db.notes.notes

\* Database { tasks, notes: db.notes } / Database { tasks: db.tasks, notes }
WithStore(db, kind, s) ==
  IF kind = "task" THEN [db EXCEPT !.tasks.tasks = s]
  ELSE [db EXCEPT !.notes.notes = s]

\* the process starts with its arguments and Database::from_disk is matched
LoadStep(p, cmds, faults) ==
  \E cmd \in cmds, fault \in faults :
    LET loaded == from_disk(file, fault)
        r == load_or_default(loaded, DefaultGroup)
    IN /\ inv[p].pc = "idle"
       /\ started < MaxCmds
       /\ cmd.sub = "add" => Ids \ used # {}
       /\ inv' = [inv EXCEPT ![p] =
                    [Idle EXCEPT !.pc = IF r.res = "Ok" THEN "handle" ELSE "done",
                                 !.cmd = cmd,
                                 !.db = IF r.db = None THEN NoDb
                                        ELSE CHOOSE db \in r.db : TRUE,
                                 !.db0 = IF r.db = None THEN NoDb
                                         ELSE CHOOSE db \in r.db : TRUE,
                                 !.n = started + 1,
                                 !.loaded = loaded.kind,
                                 !.res = IF r.res = "Ok" THEN "" ELSE r.res,
                                 !.file0 = file]]
       /\ started' = started + 1
       /\ UNCHANGED <<tasks, notes, group, last, file, io, used>>

CmdLoad(p) == LoadStep(p, Commands, ReadFaults)

\* a plausible slip: the `?` after handle_task_add is missing, the save
\* follows a fault of the handler too
CmdTaskAdd_no_try(p) ==
  \E id \in Ids \ used, now \in Times :
    LET h == handle_task_add(inv[p].cmd.add, inv[p].db.tasks.tasks, id, now)
    IN /\ inv[p].pc = "handle"
       /\ inv[p].cmd.kind = "task" /\ inv[p].cmd.sub = "add"
       /\ inv' = [inv EXCEPT ![p].pc = IF h.res = "panic" THEN "done" ELSE "save",
                             ![p].res = IF h.res = "Ok" THEN "" ELSE h.res,
                             ![p].handled = TRUE,
                             ![p].added = h.added,
                             ![p].db = WithStore(@, "task", h.tasks)]
       /\ used' = IF h.res = "Ok" THEN used \cup {id} ELSE used
       /\ UNCHANGED <<tasks, notes, group, last, file, io, started>>

\* handle_task_add, then the move of the store into the new aggregate
CmdTaskAdd(p) ==
  \E id \in Ids \ used, now \in Times :
    LET h == handle_task_add(inv[p].cmd.add, inv[p].db.tasks.tasks, id, now)
    IN /\ inv[p].pc = "handle"
       /\ inv[p].cmd.kind = "task" /\ inv[p].cmd.sub = "add"
       /\ inv' = [inv EXCEPT ![p].pc = IF h.res = "Ok" THEN "save" ELSE "done",
                             ![p].res = IF h.res = "Ok" THEN "" ELSE h.res,
                             ![p].handled = TRUE,
                             ![p].added = h.added,
                             ![p].db = WithStore(@, "task", h.tasks)]
       /\ used' = IF h.res = "Ok" THEN used \cup {id} ELSE used
       /\ UNCHANGED <<tasks, notes, group, last, file, io, started>>

\* handle_note_add
CmdNoteAdd(p) ==
  \E id \in Ids \ used, now \in Times :
    LET h == handle_note_add(inv[p].cmd.add, inv[p].db.notes.notes, id, now)
    IN /\ inv[p].pc = "handle"
       /\ inv[p].cmd.kind = "note" /\ inv[p].cmd.sub = "add"
       /\ inv' = [inv EXCEPT ![p].pc = "save",
                             ![p].handled = TRUE,
                             ![p].added = h.added,
                             ![p].db = WithStore(@, "note", h.notes)]
       /\ used' = used \cup {id}
       /\ UNCHANGED <<tasks, notes, group, last, file, io, started>>

\* the matches handle_task_rm / handle_note_rm print before they ask: the
\* tasks are the clones of the scan, the notes are looked up again with
\* get_note(id).unwrap()
print_matches(s, kind, del) ==
  [i \in 1..Len(del) |->
     IF kind = "task" THEN del[i].content
     ELSE LET index == CHOOSE index \in Search(s, del[i].id) : TRUE
              note == CHOOSE note \in StoreGet(s, index) : TRUE
          IN note.content]

\* handle_task_rm / handle_note_rm up to the prompt: with no match it
\* returns Ok(()), else it lists the matches and asks
CmdRmScan(p) ==
  LET del == delete_me(StoreOf(inv[p].db, inv[p].cmd.kind), inv[p].cmd.search)
  IN /\ inv[p].pc = "handle"
     /\ inv[p].cmd.sub = "rm"
     /\ inv' = [inv EXCEPT ![p].pc = IF del = <<>> THEN "save" ELSE "prompt",
                           ![p].handled = TRUE,
                           ![p].del = del,
                           ![p].printed =
                             print_matches(StoreOf(inv[p].db, inv[p].cmd.kind),
                                           inv[p].cmd.kind, del),
                           ![p].asked = del # <<>>]
     /\ UNCHANGED <<tasks, notes, group, last, file, io, started, used>>

\* one line read at the prompt
CmdRmAnswer(p) ==
  \E line \in Lines :
    /\ inv[p].pc = "prompt"
    /\ \/ /\ line = "eof"
          /\ inv' = [inv EXCEPT ![p].pc = "done", ![p].res = "panic",
                                ![p].line = line]
       \/ /\ line # "eof"
          /\ Lower(line) = "y"
          /\ \E s \in remove_each(StoreOf(inv[p].db, inv[p].cmd.kind),
                                 inv[p].del) :
               inv' = [inv EXCEPT ![p].pc = "save",
                                  ![p].line = line,
                                  ![p].db = WithStore(@, inv[p].cmd.kind, s)]
       \/ /\ line = "" \/ Lower(line) = "n"
          /\ inv' = [inv EXCEPT ![p].pc = "save", ![p].line = line]
       \/ /\ line \notin { "eof", "" }
          /\ Lower(line) \notin { "y", "n" }
          /\ inv' = [inv EXCEPT ![p].line = line]
    /\ UNCHANGED <<tasks, notes, group, last, file, io, started, used>>

\* a plausible slip: the store's own sequence is sorted, not a clone of it
CmdList_in_place(p) ==
  /\ inv[p].pc = "handle"
  /\ inv[p].cmd.sub = "ls"
  /\ inv' = [inv EXCEPT ![p].pc = "done",
                        ![p].res = "Ok",
                        ![p].handled = TRUE,
                        ![p].db =
                          WithStore(@, inv[p].cmd.kind,
                                    SortByCreated(StoreOf(@, inv[p].cmd.kind))),
                        ![p].printed =
                          handle_list(StoreOf(inv[p].db, inv[p].cmd.kind))]
  /\ UNCHANGED <<tasks, notes, group, last, file, io, started, used>>

\* handle_task_list / handle_note_list
CmdList(p) ==
  /\ inv[p].pc = "handle"
  /\ inv[p].cmd.sub = "ls"
  /\ inv' = [inv EXCEPT ![p].pc = "done",
                        ![p].res = "Ok",
                        ![p].handled = TRUE,
                        ![p].printed =
                          handle_list(StoreOf(inv[p].db, inv[p].cmd.kind))]
  /\ UNCHANGED <<tasks, notes, group, last, file, io, started, used>>

\* new_db.to_disk(db_path) up to File::create: the aggregate is encoded and
\* the file is created, or the command returns the fault.  The invocations
\* that have loaded and not begun to save hold a stale aggregate from now on
CmdCreate(p) ==
  \E buf \in serialize_msgpack(inv[p].db), c \in create(file) :
    /\ inv[p].pc = "save"
    /\ file' = c.file
    /\ inv' = [q \in Procs |->
                 IF q = p
                 THEN IF c.res.kind = "Ok"
                      THEN [inv[p] EXCEPT !.pc = "write", !.buf = buf,
                                          !.wrote = TRUE]
                      ELSE [inv[p] EXCEPT !.pc = "done", !.res = c.res.kind]
                 ELSE IF c.res.kind = "Ok"
                         /\ inv[q].pc \in { "handle", "prompt", "save" }
                      THEN [inv[q] EXCEPT !.staleBy = @ \cup { inv[p].n }]
                      ELSE inv[q]]
    /\ UNCHANGED <<tasks, notes, group, last, io, started, used>>

\* write_all and the drop of the BufWriter, whose result is the command's
CmdWrite(p) ==
  \E w \in write_all(file, inv[p].buf) :
    /\ inv[p].pc = "write"
    /\ file' = w.file
    /\ inv' = [q \in Procs |->
                 IF q = p
                 THEN [inv[p] EXCEPT !.pc = "done", !.res = w.res.kind,
                                     !.saved = TRUE, !.cut = w.cut,
                                     !.latest = TRUE]
                 ELSE [inv[q] EXCEPT !.latest = FALSE]]
    /\ UNCHANGED <<tasks, notes, group, last, io, started, used>>

\* the process exits
CmdExit(p) ==
  /\ inv[p].pc = "done"
  /\ inv' = [inv EXCEPT ![p] = Idle]
  /\ UNCHANGED <<tasks, notes, group, last, file, io, started, used>>

\* the steps of an invocation after its load
CmdRun(p) ==
  \/ CmdTaskAdd(p)
  \/ CmdNoteAdd(p)
  \/ CmdRmScan(p)
  \/ CmdRmAnswer(p)
  \/ CmdList(p)
  \/ CmdCreate(p)
  \/ CmdWrite(p)
  \/ CmdExit(p)

CmdStep(p) ==
  \/ CmdLoad(p)
  \/ CmdRun(p)

CmdNext == CmdStep("p1")

SpecCmd == CmdInit /\ [][CmdNext]_vars

(***************************************************************************)
(* Claims about the faults of a command's load.                            *)
(***************************************************************************)
\* C9: when reading the database file fails with an I/O fault other than
\* file-not-found (permission denied), the command fails with that fault:
\* it does not go on with a default aggregate and does not write the file.
C9_ReadFaultSurfaced ==
  \A p \in Procs :
    inv[p].loaded = "PermissionDenied" =>
      /\ inv[p].pc = "done"
      /\ inv[p].res = "PermissionDenied"
      /\ inv[p].db = NoDb
      /\ ~inv[p].handled
      /\ ~inv[p].wrote

\* C10: when the file exists but its bytes cannot be decoded, every command
\* fails with the decode fault before any handler runs: no aggregate is in
\* memory, default or other, nothing is mutated, nothing is saved, and the
\* file is left as it was.
C10_DecodeFaultFatal ==
  \A p \in Procs :
    ( /\ inv[p].pc # "idle"
      /\ inv[p].file0.exists
      /\ inv[p].loaded # "PermissionDenied"
      /\ ~deserialize_database(inv[p].file0.bytes).ok ) =>
      /\ inv[p].pc = "done"
      /\ inv[p].res = "Other"
      /\ inv[p].loaded = "Other"
      /\ inv[p].db = NoDb
      /\ ~inv[p].handled
      /\ ~inv[p].wrote
      /\ file = inv[p].file0

C10_Witness ==
  \E p \in Procs :
    /\ inv[p].pc = "done"
    /\ inv[p].loaded = "Other"
    /\ inv[p].cmd.kind = "task"
    /\ inv[p].cmd.sub = "add"
    /\ Len(inv[p].file0.bytes) > 0

(***************************************************************************)
(* Claims about one command invocation.                                    *)
(***************************************************************************)
\* the records of both stores of an aggregate
RecordsOf(db) == Range(db.tasks.tasks) \cup Range(db.notes.notes)

\* C11: when the database file does not exist, the load does not make the
\* command fail: the command goes on with a default aggregate, both stores
\* empty.  An add that succeeds, its bytes written without a write fault,
\* leaves a file that holds exactly the one new record; a list prints
\* nothing and creates no file.
C11_MissingFileDefault ==
  \A p \in Procs :
    (inv[p].pc # "idle" /\ ~inv[p].file0.exists) =>
      /\ inv[p].loaded = "NotFound"
      /\ inv[p].res # "NotFound"
      /\ inv[p].db0 = Database(DefaultGroup, <<>>, <<>>)
      /\ inv[p].pc = "done" => inv[p].handled
      /\ ( /\ inv[p].cmd.sub = "add"
           /\ inv[p].pc = "done"
           /\ inv[p].res = "Ok"
           /\ ~inv[p].cut ) =>
           /\ file.exists
           /\ inv[p].added # None
           /\ \E db \in from_disk(file, "none").db :
                /\ RecordsOf(db) = inv[p].added
                /\ Len(db.tasks.tasks) + Len(db.notes.notes) = 1
      /\ (inv[p].cmd.sub = "ls" /\ inv[p].pc = "done") =>
           /\ inv[p].res = "Ok"
           /\ inv[p].printed = <<>>
           /\ ~file.exists

C11_Witness ==
  \E p \in Procs :
    /\ inv[p].pc = "done"
    /\ ~inv[p].file0.exists
    /\ inv[p].cmd.kind = "task"
    /\ inv[p].cmd.sub = "add"
    /\ inv[p].res = "Ok"
    /\ ~inv[p].cut
    /\ file.exists
    /\ \E r \in inv[p].added : r.depends # {}

\* the texts the options of `task add` accept
ValidRepeats == { "daily", "Daily", "weekly", "Weekly", "monthly", "Monthly" }

ValidDates ==
  { "Mon, 2 Mar 2020 09:30:00 +0000", "Mon, 2 Mar 2020 10:30:00 +0100" }

ValidNumbers == { "0", "1", "2" }

\* arguments of `task add` with a dependency, a repeats or a due text that
\* is not valid (and a priority that is a number, if one is given)
Rejected(a) ==
  /\ a.priority \subseteq ValidNumbers
  /\ \/ \E i \in 1..Len(a.depends) :
          \A j \in 1..Len(UuidTexts) : a.depends[i] # UuidTexts[j]
     \/ ~(a.repeats \subseteq ValidRepeats)
     \/ ~(a.due \subseteq ValidDates)

\* C12: a `task add` whose dependency, repeats or due text is rejected
\* returns the fault at once: the aggregate in memory is the one loaded (no
\* new task, not even one with the dependencies parsed before the bad
\* one), and the database file is not written.
C12_NoPartialAdd ==
  \A p \in Procs :
    ( /\ inv[p].cmd.kind = "task"
      /\ inv[p].cmd.sub = "add"
      /\ inv[p].handled
      /\ Rejected(inv[p].cmd.add) ) =>
      /\ inv[p].pc = "done"
      /\ inv[p].res = "Other"
      /\ inv[p].db = inv[p].db0
      /\ inv[p].added = None
      /\ ~inv[p].wrote
      /\ ~inv[p].saved
      /\ file = inv[p].file0

C12_Witness ==
  \E p \in Procs :
    /\ inv[p].pc = "done"
    /\ inv[p].handled
    /\ inv[p].cmd.add.depends = <<UuidTexts[1], "zz">>
    /\ inv[p].res = "Other"
    /\ Len(inv[p].db0.tasks.tasks) = 2

\* the invocation of p has saved: its bytes are in the file, no write fault
\* has cut them short
HasSaved(p) == inv[p].pc = "done" /\ inv[p].saved /\ ~inv[p].cut

\* s is the first items of buf
IsPrefix(s, buf) == Len(s) <= Len(buf) /\ s = SubSeq(buf, 1, Len(s))

\* C14: in one invocation the order is load, mutation in memory, save.  The
\* aggregate in memory changes only in the handler, after the load and
\* before the save; the file changes only in the one to_disk of an
\* invocation whose handler has finished without a fault, and what is
\* written is the encoding of the whole aggregate (all of it unless a write
\* fault cuts it short); once the invocation has written, it writes no
\* more; and whenever the file can be loaded during a rm, it holds all of
\* the matching records or none of them.
C14_LoadMutateSave ==
  [][\A p \in Procs :
       /\ (inv'[p].db # inv[p].db /\ inv[p].pc # "idle" /\ inv'[p].pc # "idle") =>
            /\ inv[p].pc \in { "handle", "prompt" }
            /\ inv[p].loaded # ""
            /\ ~inv[p].wrote
       /\ (file' # file /\ inv'[p] # inv[p]) =>
            /\ inv[p].pc \in { "save", "write" }
            /\ inv[p].handled
            /\ inv[p].res = ""
            /\ ~inv[p].saved
            /\ inv[p].pc = "save" => ~inv[p].wrote
            /\ inv[p].pc = "write" =>
                 /\ inv[p].buf \in serialize_msgpack(inv[p].db)
                 /\ IsPrefix(file'.bytes, inv[p].buf)
                 /\ ~inv'[p].cut => file'.bytes = inv[p].buf
       /\ inv[p].pc = "done" => file' = file
       /\ inv'[p].cmd.sub = "rm" =>
            \A db \in from_disk(file', "none").db :
              \/ Range(inv'[p].del) \cap RecordsOf(db) = {}
              \/ Range(inv'[p].del) \subseteq RecordsOf(db)]_vars

C14_Witness ==
  \E p \in Procs :
    /\ inv[p].pc = "done"
    /\ inv[p].cmd.sub = "rm"
    /\ Len(inv[p].del) = 2
    /\ HasSaved(p)
    /\ from_disk(file, "none") = IoOk(inv[p].db)
    /\ RecordsOf(inv[p].db) = {}

\* the contents of a sequence of records, in its order
ContentsOf(s) == [i \in 1..Len(s) |-> s[i].content]

\* the sequences that hold the records of s in some order
Rearranged(s) ==
  { [i \in 1..Len(s) |-> s[f[i]]] :
      f \in { g \in [1..Len(s) -> 1..Len(s)] :
                \A i, j \in 1..Len(s) : g[i] = g[j] => i = j } }

\* s is in the order of creation, latest first
LatestFirst(s) == \A i \in 1..(Len(s) - 1) : s[i].created >= s[i + 1].created

\* C15: reads have no side effects.  The scan of rm (get_all, and get for
\* each matching note) and the list command leave the store's sequence as
\* it was, its identity order and its records, though list prints the
\* records by creation time, latest first, from a sorted copy and get
\* returns the record asked for; and the list command never writes the
\* database file.
C15_ReadsNoEffect ==
  [][\A p \in Procs :
       /\ ( /\ inv[p].pc = "handle"
            /\ inv[p].cmd.sub \in { "ls", "rm" }
            /\ inv'[p] # inv[p] ) =>
            /\ inv'[p].db = inv[p].db
            /\ file' = file
            /\ inv[p].cmd.sub = "rm" =>
                 inv'[p].printed = ContentsOf(inv'[p].del)
       /\ (inv[p].pc = "handle" /\ inv[p].cmd.sub = "ls" /\ inv'[p] # inv[p]) =>
            /\ inv'[p].pc = "done"
            /\ inv'[p].res = "Ok"
            /\ \E s \in Rearranged(StoreOf(inv[p].db, inv[p].cmd.kind)) :
                 /\ LatestFirst(s)
                 /\ inv'[p].printed = ContentsOf(s)
       /\ (inv'[p].cmd.sub = "ls") =>
            /\ ~inv'[p].wrote
            /\ ~inv'[p].saved
            /\ inv'[p].db = inv'[p].db0
            /\ inv'[p].pc \notin { "save", "write" }]_vars

C15_Witness ==
  \E p \in Procs :
    /\ inv[p].pc = "done"
    /\ inv[p].cmd.kind = "task"
    /\ inv[p].cmd.sub = "ls"
    /\ Len(inv[p].printed) = 3
    /\ inv[p].printed # ContentsOf(inv[p].db.tasks.tasks)
    /\ StrictlyAscending(inv[p].db.tasks.tasks)

\* C16: for every task that task-add created and stored, the classification
\* is present if and only if a due date or a repetition was supplied, and
\* the repetition period is present only when the classification is
\* Repeated: a task given only a due date is Deadline with no period, a
\* task given neither has no classification, no period and no due date.
C16_TypeAndRepeat ==
  \A p \in Procs :
    (inv[p].cmd.kind = "task" /\ inv[p].cmd.sub = "add") =>
      \A r \in inv[p].added :
        LET a == inv[p].cmd.add
        IN /\ r \in Range(inv[p].db.tasks.tasks)
           /\ r.task_type # None <=> (a.due # None \/ a.repeats # None)
           /\ r.repeat # None => r.task_type = Some("Repeated")
           /\ r.repeat # None <=> a.repeats # None
           /\ r.due # None <=> a.due # None
           /\ (a.due # None /\ a.repeats = None) =>
                (r.task_type = Some("Deadline") /\ r.repeat = None)
           /\ (a.due = None /\ a.repeats = None) =>
                (r.task_type = None /\ r.repeat = None /\ r.due = None)

C16_Witness ==
  \E p \in Procs :
    \E r \in inv[p].added :
      /\ inv[p].cmd.kind = "task"
      /\ inv[p].pc = "done"
      /\ r.task_type = Some("Repeated")
      /\ r.repeat = Some("Daily")
      /\ r.due = Some(2)
      /\ \E t \in Range(inv[p].db.tasks.tasks) : t.task_type = Some("Deadline")

\* C20: a write fault during save is never swallowed.  When the add or rm
\* command returns success, the file holds exactly the complete encoding
\* of the aggregate; when creating the file or writing the bytes failed,
\* the command returns the I/O fault.
C20_WriteFaultSurfaced ==
  \A p \in Procs :
    (inv[p].pc = "done" /\ inv[p].cmd.sub \in { "add", "rm" }) =>
      /\ inv[p].res = "Ok" =>
           /\ inv[p].saved
           /\ file.exists
           /\ file.bytes \in serialize_msgpack(inv[p].db)
      /\ (inv[p].saved /\ inv[p].cut) =>
           inv[p].res \in { "StorageFull", "PermissionDenied" }

\* the records of the store a command of that kind is not addressed to
OtherStore(db, kind) == IF kind = "task" THEN db.notes.notes ELSE db.tasks.tasks

\* C21: a task command (add or rm) persists the note store as it was
\* loaded and a note command the task store: the aggregate it saves holds
\* the other store's records unchanged, and once it has saved, the other
\* store's records in the file are those the file held before the command
\* (none, if there was no file).
C21_OtherStoreKept ==
  \A p \in Procs :
    (inv[p].pc # "idle" /\ inv[p].cmd.sub \in { "add", "rm" }) =>
      /\ OtherStore(inv[p].db, inv[p].cmd.kind)
           = OtherStore(inv[p].db0, inv[p].cmd.kind)
      /\ HasSaved(p) =>
           \A new \in from_disk(file, "none").db :
             /\ ~inv[p].file0.exists =>
                  OtherStore(new, inv[p].cmd.kind) = <<>>
             /\ \A old \in from_disk(inv[p].file0, "none").db :
                  OtherStore(new, inv[p].cmd.kind)
                    = OtherStore(old, inv[p].cmd.kind)

\* the records of s whose content contains the text, and the others
Matching(s, search) == { r \in Range(s) : Contains(r.content, search) }

\* C22: the confirmation protocol of rm.  The scan changes nothing; with no
\* matching record it shows no prompt and the command goes on to save, with
\* one it prompts.  At the prompt 'y' or 'Y' removes every record whose
\* content contains the search text and keeps every other record, in their
\* order; 'n', 'N' or an empty line removes nothing; any other line
\* changes nothing and prompts again.  The store of a rm command changes
\* in no other step.
C22_RmProtocol ==
  [][\A p \in Procs :
       LET kind == inv[p].cmd.kind
           search == inv[p].cmd.search
           store == StoreOf(inv[p].db, kind)
           after == StoreOf(inv'[p].db, kind)
           moved == inv'[p] # inv[p] /\ inv'[p].pc # "idle"
       IN inv[p].cmd.sub = "rm" =>
            /\ (inv[p].pc = "handle" /\ moved) =>
                 /\ inv'[p].db = inv[p].db
                 /\ Range(inv'[p].del) = Matching(store, search)
                 /\ inv'[p].asked <=> Matching(store, search) # {}
                 /\ inv'[p].pc = IF Matching(store, search) = {} THEN "save"
                                 ELSE "prompt"
            /\ (inv[p].pc = "prompt" /\ moved) =>
                 /\ inv'[p].line \in { "y", "Y" } =>
                      /\ after = SelectSeq(store,
                                           LAMBDA r : ~Contains(r.content, search))
                      /\ Range(after) = Range(store) \ Matching(store, search)
                      /\ inv'[p].pc = "save"
                 /\ inv'[p].line \in { "n", "N", "" } =>
                      /\ inv'[p].db = inv[p].db
                      /\ inv'[p].pc = "save"
                 /\ inv'[p].line = "maybe" =>
                      /\ inv'[p].db = inv[p].db
                      /\ inv'[p].pc = "prompt"
            /\ (moved /\ inv[p].pc # "idle" /\ inv'[p].db # inv[p].db) =>
                 /\ inv[p].pc = "prompt"
                 /\ inv'[p].line \in { "y", "Y" }]_vars

C22_Witness ==
  \E p \in Procs :
    /\ inv[p].cmd.sub = "rm"
    /\ inv[p].pc = "save"
    /\ inv[p].line = "Y"
    /\ Len(inv[p].del) = 2
    /\ Len(StoreOf(inv[p].db0, inv[p].cmd.kind)) = 3
    /\ Len(StoreOf(inv[p].db, inv[p].cmd.kind)) = 1

(***************************************************************************)
(* The concurrent specification: two processes run command invocations     *)
(* against the same database file, their steps interleaved.  Nothing in    *)
(* the code locks the file.                                                *)
(***************************************************************************)
ConcInit ==
  /\ tasks = <<>>
  /\ notes = <<>>
  /\ group = DefaultGroup
  /\ last = NoCall
  /\ \/ file = NoFile /\ used = {}
     \/ /\ file \in { FileOf(buf) : buf \in serialize_msgpack(StoredDb) }
        /\ used = IdsOf(StoredDb.tasks.tasks)
  /\ io = NoIo
  /\ inv = [p \in Procs |-> Idle]
  /\ started = 0

\* the commands of the concurrent invocations: their arguments are valid
\* and their loads meet no read fault
ConcCommands ==
  { cmd \in Commands :
      /\ cmd.sub = "add" =>
           /\ ~Rejected(cmd.add)
           /\ cmd.add.priority \subseteq ValidNumbers
           /\ cmd.add.content # "ab"
      /\ cmd.sub = "rm" => cmd.search = "a"
      /\ cmd.sub \in { "rm", "ls" } => cmd.kind = "task" }

ConcLoad(p) == LoadStep(p, ConcCommands, { "none" })

ConcStep(p) ==
  \/ ConcLoad(p)
  \/ CmdRun(p)

ConcNext == \E p \in Procs : ConcStep(p)

SpecConc == ConcInit /\ [][ConcNext]_vars

\* the invocations of p and q both loaded before either of them saved: one
\* of them created the file between the load of the other and the other's
\* own save
BothLoadedFirst(p, q) ==
  inv[p].n \in inv[q].staleBy \/ inv[q].n \in inv[p].staleBy

\* the records the invocation of p removed
RemovedBy(p) == RecordsOf(inv[p].db0) \ RecordsOf(inv[p].db)

\* C13: if two invocations both load the database file before either of
\* them saves, then after both have saved the file holds exactly the
\* aggregate of the one that saved second: what the first saver added is
\* not in it, what the first saver removed (and the second loaded and did
\* not remove) is in it, and neither invocation reports an error.
C13_LostUpdate ==
  \A p, q \in Procs :
    ( /\ p # q
      /\ HasSaved(p)
      /\ HasSaved(q)
      /\ BothLoadedFirst(p, q)
      /\ inv[q].latest ) =>
      /\ from_disk(file, "none") = IoOk(inv[q].db)
      /\ inv[p].added \cap RecordsOf(inv[q].db) = {}
      /\ (RemovedBy(p) \cap RecordsOf(inv[q].db0)) \ RemovedBy(q)
           \subseteq RecordsOf(inv[q].db)
      /\ inv[p].res = "Ok"
      /\ inv[q].res = "Ok"

C13_Witness ==
  \E p, q \in Procs :
    /\ p # q
    /\ HasSaved(p)
    /\ HasSaved(q)
    /\ BothLoadedFirst(p, q)
    /\ inv[q].latest
    /\ inv[p].added # None
    /\ inv[q].added # None
    /\ Len(file.bytes) > Len(inv[q].buf)

====
